---- MODULE Spec2Model ----
(***************************************************************************)
(* Model of the us-number-order backorder tracker (backorder_tracker.py,   *)
(* mcp_integration.py) and of the Zendesk webhook dispatcher               *)
(* (zendesk_webhook.py).                                                   *)
(*                                                                         *)
(* Tracker: the sqlite table `backorders`, the Inteliquent order status    *)
(* seen through check_order_status, and the polling thread _tracking_loop, *)
(* cut into steps at the points where it writes the table.  add_backorder  *)
(* is called by the webhook process and interleaves with those steps.      *)
(* The host calls start_tracking and stop_tracking one after the other;    *)
(* hpc is its position, tpc the thread's.  Time is kept as the age of an   *)
(* order's last status note: fresh (under 14400 s) or due; a fresh note    *)
(* may become due during any sleep of the thread.                          *)
(*                                                                         *)
(* Dispatcher: webhook invocations, each on a node (a /tmp namespace for   *)
(* the FileLock), all sharing the Redis lock server and the `tickets`      *)
(* table.  Timing: the sqlite operations between the acquisition of the    *)
(* Redis lock and the call of handle_user_request take far less than the   *)
(* lock's 30 s TTL, so the lock can expire only once the call has started; *)
(* time.sleep(30) under the lock always outlasts what is left of the TTL.  *)
(***************************************************************************)
EXTENDS Integers, Sequences, FiniteSets, TLC

\* ------------------------------------------------------------------ bounds
MaxAdds == 2        \* add_backorder calls in a run
MaxUnits == 2       \* tnItem entries with tnStatus "Complete" in a payload
MaxQty == 2         \* quantity every placed backorder asks for
MaxInv == 2         \* webhook invocations
failureThreshold == 1   \* consecutive failures after which a breaker is to open

Orders == {1, 2}
Tickets == {1, 2}
Nodes == {1, 2}
Invs == 1..MaxInv

NoRow == [status |-> "absent"]
Free == 0            \* no holder of a lock

VARIABLES
    \* tracker
    backorders,          \* table backorders: order_id -> row or NoRow
    remote,              \* Inteliquent's orderDetailResponse per order
    running,             \* BackorderTracker.running
    tpc,                 \* position of the tracking thread
    tpc2,                \* a second thread in _tracking_loop, if one was started
    hpc,                 \* position of the host thread that starts and stops it
    pending_backorders,  \* the list the current tick iterates over
    completed_numbers,   \* numbers handed to process_completed_order
    process_result,      \* the lists process_completed_order collects, as counts
    consecutive_failures,\* register calls that failed in a row on this MCP client
    last_status_updates, \* orders with a status-update timer
    sinceNote,           \* how old the last status note of an order is
    last_poll,           \* what the loop body last saw and did for an order
    everCompleted,       \* history: status "completed" was stored for the order
    addCount,            \* history: add_backorder calls per order
    processRuns,         \* history: process_completed_order calls per order
    \* dispatcher
    ipc,                 \* position of each webhook invocation
    inv,                 \* ticket id and node of each invocation
    file_lock,           \* /tmp/ticket_<id>.lock holder per node and ticket
    redis_lock,          \* lock:ticket:<id> holder
    tickets,             \* table tickets: "absent", or the processed column "0" / "1"
    pend,                \* return value or exception leaving the with block
    result,              \* the "status" of the HTTP response
    mcp_payload,         \* numbers in the register request of the order path just run
    trace                \* history: what each invocation did

trackerVars == <<backorders, remote, running, tpc, tpc2, hpc, pending_backorders,
                 completed_numbers, process_result, consecutive_failures,
                 last_status_updates, sinceNote, last_poll, everCompleted,
                 addCount, processRuns>>
dispatcherVars == <<ipc, inv, file_lock, redis_lock, tickets, pend, result,
                    mcp_payload, trace>>
vars == <<trackerVars, dispatcherVars>>

\* ------------------------------------------------------------ order store
\* INSERT OR REPLACE: the row is rewritten, status "pending", completion_date NULL
add_backorder(db, order_id, quantity, ticket_id) ==
    [db EXCEPT ![order_id] = [status |-> "pending", quantity |-> quantity,
                              ticket_id |-> ticket_id, completion_date |-> FALSE]]

update_backorder_status_Skipped(db, order_id, status, completion_date) == db

\* UPDATE ... WHERE order_id = ?: no effect when the row is absent
update_backorder_status(db, order_id, status, completion_date) ==
    IF db[order_id] = NoRow THEN db
    ELSE [db EXCEPT ![order_id] = [@ EXCEPT !.status = status,
                                            !.completion_date = completion_date]]

is_backorder_completed(db, order_id) ==
    db[order_id] # NoRow /\ db[order_id].status = "completed"

remove_completed_backorder_Kept(db, order_id) == db

\* DELETE FROM backorders WHERE order_id = ?
remove_completed_backorder(db, order_id) ==
    [db EXCEPT ![order_id] = NoRow]

RECURSIVE Sum(_, _)
Sum(f, S) ==
    IF S = {} THEN 0
    ELSE LET x == CHOOSE y \in S : TRUE IN f[x] + Sum(f, S \ {x})

RECURSIVE SortedSeq(_)
SortedSeq(S) ==
    IF S = {} THEN <<>>
    ELSE LET m == CHOOSE x \in S : \A y \in S : x <= y
         IN <<m>> \o SortedSeq(S \ {m})

\* a listing without the WHERE clause and without the filter
get_pending_backorders_All(db) ==
    LET ids == {o \in Orders : db[o] # NoRow}
        s == SortedSeq(ids)
    IN [k \in 1..Len(s) |-> [order_id |-> s[k], quantity |-> db[s[k]].quantity,
                             ticket_id |-> db[s[k]].ticket_id]]

\* SELECT ... WHERE status = 'pending', then the is_backorder_completed filter;
\* each record is a snapshot of the row
get_pending_backorders(db) ==
    LET ids == {o \in Orders : db[o] # NoRow /\ db[o].status = "pending"
                               /\ ~is_backorder_completed(db, o)}
        s == SortedSeq(ids)
    IN [k \in 1..Len(s) |-> [order_id |-> s[k], quantity |-> db[s[k]].quantity,
                             ticket_id |-> db[s[k]].ticket_id]]

\* ---------------------------------------------------------------- tracker
\* no order has been polled in this tick yet
NoPoll == [order_id |-> 0, remote |-> "none", units |-> 0, status_error |-> FALSE,
           status_changed |-> FALSE, due_passed |-> FALSE, status_note |-> FALSE,
           completion_note |-> FALSE, comments |-> 0]

\* get_pending_backorders builds every record with last_status=None, and the
\* records of a tick are dropped at its end
last_status(b) == "None"

\* hasattr(backorder, 'last_status') and backorder.last_status != current_status
status_changed(b, current_status) == last_status(b) # current_status

\* process_completed_order has not been called for the order at hand; once it
\* is: the lists it collects (as counts) and the register requests that went to
\* the MCP server
NoResult == [order_id |-> 0, error |-> FALSE, successful_additions |-> 0,
             failed_additions |-> 0, successful_blocks |-> 0, failed_blocks |-> 0,
             requests |-> 0]

TrackerInit ==
    /\ backorders = [o \in Orders |-> NoRow]
    /\ remote = [o \in Orders |-> [orderStatus |-> "pending", complete |-> 0]]
    /\ running = FALSE
    /\ tpc = "none"
    /\ tpc2 = "none"
    /\ hpc = "idle"
    /\ pending_backorders = <<>>
    /\ completed_numbers = 0
    /\ process_result = NoResult
    /\ consecutive_failures = 0
    /\ last_status_updates = {}
    /\ sinceNote = [o \in Orders |-> "never"]
    /\ last_poll = NoPoll
    /\ everCompleted = [o \in Orders |-> FALSE]
    /\ addCount = [o \in Orders |-> 0]
    /\ processRuns = [o \in Orders |-> 0]

NoteCompleted(db, ever) ==
    [o \in Orders |-> ever[o] \/ is_backorder_completed(db, o)]

\* place_inteliquent_backorder -> tracker.add_backorder, from the webhook process
\* (reached only with a ticket id: main.py:319), and the placement comment that
\* follows it. add_backorder catches what sqlite raises (db_ok false) and
\* returns normally, so the comment is posted all the same
AddBackorder(o, q, tk, db_ok) ==
    /\ UNCHANGED <<dispatcherVars, tpc2>>
    /\ Sum(addCount, Orders) < MaxAdds
    \* orders and tickets are numbered in the order they first appear
    /\ \A p \in Orders : p < o => addCount[p] > 0
    /\ tk = 1 \/ \E p \in Orders : backorders[p] # NoRow /\ backorders[p].ticket_id = tk - 1
    /\ backorders' = IF db_ok THEN add_backorder(backorders, o, q, tk)
                     ELSE backorders
    /\ addCount' = [addCount EXCEPT ![o] = @ + 1]
    /\ UNCHANGED <<remote, running, tpc, hpc, pending_backorders, completed_numbers,
                   process_result, consecutive_failures, last_status_updates,
                   sinceNote, last_poll, everCompleted, processRuns>>

\* Inteliquent finishes a placed order: orderStatus "Closed", n numbers Complete
RemoteClose(o, n) ==
    /\ UNCHANGED <<dispatcherVars, tpc2>>
    /\ addCount[o] > 0
    /\ remote[o].orderStatus = "pending"
    /\ remote' = [remote EXCEPT ![o] = [orderStatus |-> "Closed", complete |-> n]]
    /\ UNCHANGED <<backorders, running, tpc, hpc, pending_backorders,
                   completed_numbers, process_result, consecutive_failures,
                   last_status_updates, sinceNote, last_poll, everCompleted,
                   addCount, processRuns>>

\* the host calls start_tracking: a new thread runs _tracking_loop, whose
\* last_status_updates starts empty
start_tracking ==
    /\ UNCHANGED <<dispatcherVars, tpc2>>
    /\ hpc = "idle"
    /\ ~running
    /\ running' = TRUE
    /\ tpc' = "top"
    /\ last_status_updates' = {}
    /\ pending_backorders' = <<>>
    /\ last_poll' = NoPoll
    /\ UNCHANGED <<backorders, remote, hpc, completed_numbers, process_result,
                   consecutive_failures, sinceNote, everCompleted, addCount,
                   processRuns>>

\* another thread calls start_tracking while the host's stop_tracking waits in
\* join for a loop that has not yet looked at the flag: `if self.running` is
\* false, so the flag is set again and a second thread enters _tracking_loop.
\* The ticks of that thread are not followed
RacingStart ==
    /\ UNCHANGED dispatcherVars
    /\ hpc = "join"
    /\ ~running
    /\ tpc \notin {"none", "exited"}
    /\ tpc2 = "none"
    /\ running' = TRUE
    /\ tpc2' = "loop"
    /\ UNCHANGED <<backorders, remote, tpc, hpc, pending_backorders,
                   completed_numbers, process_result, consecutive_failures,
                   last_status_updates, sinceNote, last_poll, everCompleted,
                   addCount, processRuns>>

\* the host calls stop_tracking: the flag is cleared, then the thread, if there
\* is one, is joined
stop_tracking ==
    /\ UNCHANGED <<dispatcherVars, tpc2>>
    /\ hpc = "idle"
    /\ tpc # "none"
    /\ running' = FALSE
    /\ hpc' = "join"
    /\ UNCHANGED <<backorders, remote, tpc, pending_backorders, completed_numbers,
                   process_result, consecutive_failures, last_status_updates,
                   sinceNote, last_poll, everCompleted, addCount, processRuns>>

\* a stop_tracking that returns without waiting for the thread
JoinThread_NoWait ==
    /\ UNCHANGED <<dispatcherVars, tpc2>>
    /\ hpc = "join"
    /\ hpc' = "idle"
    /\ UNCHANGED <<backorders, remote, running, tpc, pending_backorders,
                   completed_numbers, process_result, consecutive_failures,
                   last_status_updates, sinceNote, last_poll, everCompleted,
                   addCount, processRuns>>

\* track_thread.join() returns: the thread has left _tracking_loop
JoinThread ==
    /\ UNCHANGED <<dispatcherVars, tpc2>>
    /\ hpc = "join"
    /\ tpc = "exited"
    /\ hpc' = "idle"
    /\ UNCHANGED <<backorders, remote, running, tpc, pending_backorders,
                   completed_numbers, process_result, consecutive_failures,
                   last_status_updates, sinceNote, last_poll, everCompleted,
                   addCount, processRuns>>

\* while self.running: false at the top of the loop
LoopExit ==
    /\ UNCHANGED <<dispatcherVars, tpc2>>
    /\ tpc = "top"
    /\ ~running
    /\ tpc' = "exited"
    /\ UNCHANGED <<backorders, remote, running, hpc, pending_backorders,
                   completed_numbers, process_result, consecutive_failures,
                   last_status_updates, sinceNote, last_poll, everCompleted,
                   addCount, processRuns>>

\* while self.running: true; the iteration lists the pending rows
TickStart ==
    /\ UNCHANGED <<dispatcherVars, tpc2>>
    /\ tpc = "top"
    /\ running
    /\ pending_backorders' = get_pending_backorders(backorders)
    /\ tpc' = IF pending_backorders' = <<>> THEN "sleep" ELSE "poll"
    /\ last_poll' = NoPoll
    /\ UNCHANGED <<backorders, remote, running, hpc, completed_numbers,
                   process_result, consecutive_failures, last_status_updates,
                   sinceNote, everCompleted, addCount, processRuns>>

\* the argument of the time.sleep the thread is in
SleepSeconds(pc) == IF pc = "backoff" THEN 3600 ELSE 600

\* time.sleep(600) or time.sleep(3600) returns; while it lasted, status notes
\* younger than 14400 s may have reached that age
Wake(due) ==
    /\ UNCHANGED <<dispatcherVars, tpc2>>
    /\ tpc \in {"sleep", "backoff"}
    /\ due \subseteq {o \in Orders : sinceNote[o] = "fresh"}
    /\ sinceNote' = [o \in Orders |-> IF o \in due THEN "due" ELSE sinceNote[o]]
    /\ tpc' = "top"
    /\ last_poll' = IF SleepSeconds(tpc) = 3600
                    THEN [NoPoll EXCEPT !.remote = "backoff"] ELSE NoPoll
    /\ UNCHANGED <<backorders, remote, running, hpc, pending_backorders,
                   completed_numbers, process_result, consecutive_failures,
                   last_status_updates, everCompleted, addCount, processRuns>>

NextOrder(q) == IF Tail(q) = <<>> THEN "sleep" ELSE "poll"

\* check_order_status returned {"error": ...}: nothing is done for the order
PollError ==
    /\ UNCHANGED <<dispatcherVars, tpc2>>
    /\ tpc = "poll"
    /\ last_poll' = [NoPoll EXCEPT !.order_id = Head(pending_backorders).order_id,
                                   !.remote = "error", !.status_error = TRUE]
    /\ pending_backorders' = Tail(pending_backorders)
    /\ tpc' = NextOrder(pending_backorders)
    /\ UNCHANGED <<backorders, remote, running, hpc, completed_numbers,
                   process_result, consecutive_failures, last_status_updates,
                   sinceNote, everCompleted, addCount, processRuns>>

AfterException_Terminates == "exited"

AfterException_NoBackoff == "sleep"

\* except Exception at the loop boundary: time.sleep(3600), then the while test
AfterException == "backoff"

\* the 200 response is not the expected JSON object (null, a list, or
\* orderDetailResponse null): .get raises in the loop body, outside any inner try
PollRaise ==
    /\ UNCHANGED <<dispatcherVars, tpc2>>
    /\ tpc = "poll"
    /\ last_poll' = [NoPoll EXCEPT !.order_id = Head(pending_backorders).order_id,
                                   !.remote = "raise"]
    /\ pending_backorders' = <<>>
    /\ tpc' = AfterException
    /\ UNCHANGED <<backorders, remote, running, hpc, completed_numbers,
                   process_result, consecutive_failures, last_status_updates,
                   sinceNote, everCompleted, addCount, processRuns>>

\* last_update is None or (current_time - last_update).total_seconds() >= 14400
should_update_ticket(o, timers, since) ==
    o \notin timers \/ since[o] = "due"

\* orderStatus is not "Closed": completed rows are skipped, otherwise the
\* 4-hour status note is posted when the timer is unset or has run out;
\* desiredDueDate (due_passed) only goes into the text of the note
PollPending(due_passed) ==
    /\ UNCHANGED <<dispatcherVars, tpc2>>
    /\ tpc = "poll"
    /\ LET b == Head(pending_backorders)
           o == b.order_id
           note == /\ ~is_backorder_completed(backorders, o)
                   /\ should_update_ticket(o, last_status_updates, sinceNote)
       IN
        /\ remote[o].orderStatus # "Closed"
        /\ last_status_updates' =
              IF note THEN last_status_updates \cup {o} ELSE last_status_updates
        /\ sinceNote' = IF note THEN [sinceNote EXCEPT ![o] = "fresh"] ELSE sinceNote
        /\ last_poll' = [NoPoll EXCEPT !.order_id = o, !.remote = "pending",
                                       !.status_changed = status_changed(b, "pending"),
                                       !.due_passed = due_passed,
                                       !.status_note = note]
    /\ pending_backorders' = Tail(pending_backorders)
    /\ tpc' = NextOrder(pending_backorders)
    /\ UNCHANGED <<backorders, remote, running, hpc, completed_numbers,
                   process_result, consecutive_failures, everCompleted, addCount,
                   processRuns>>

\* a Closed branch that falls through to the status-update logic
PollClosed_WithStatusNote(error2, error3) ==
    /\ UNCHANGED <<dispatcherVars, tpc2>>
    /\ tpc = "poll"
    /\ LET b == Head(pending_backorders)
           o == b.order_id
           n == remote[o].complete
       IN
        /\ remote[o].orderStatus = "Closed"
        /\ last_poll' = [NoPoll EXCEPT !.order_id = o, !.remote = "Closed",
                                       !.units = n,
                                       !.status_changed = status_changed(b, "Closed"),
                                       !.status_error = error2 \/ error3,
                                       !.status_note = TRUE,
                                       !.completion_note = status_changed(b, "Closed")]
        /\ last_status_updates' = last_status_updates \cup {o}
        /\ sinceNote' = [sinceNote EXCEPT ![o] = "fresh"]
        /\ IF error2
           THEN \* check_backorder_completion False: mark completed, then remove
                /\ backorders' = update_backorder_status(backorders, o, "completed", TRUE)
                /\ tpc' = "remove"
                /\ UNCHANGED completed_numbers
           ELSE IF error3 \/ n = 0
           THEN \* process_completed_backorder returns False before any write
                /\ tpc' = "remove"
                /\ UNCHANGED <<backorders, completed_numbers>>
           ELSE /\ backorders' = update_backorder_status(backorders, o, "completed", TRUE)
                /\ completed_numbers' = n
                /\ tpc' = "process"
    /\ everCompleted' = NoteCompleted(backorders', everCompleted)
    /\ UNCHANGED <<remote, running, hpc, pending_backorders, process_result,
                   consecutive_failures, addCount, processRuns>>

\* orderStatus is "Closed": post_completion_note (last_status is None on every
\* fresh record, so the status always counts as changed), then
\* check_backorder_completion (second status call, error2) and
\* process_completed_backorder (third status call, error3) up to its table write
PollClosed(error2, error3) ==
    /\ UNCHANGED <<dispatcherVars, tpc2>>
    /\ tpc = "poll"
    /\ LET b == Head(pending_backorders)
           o == b.order_id
           n == remote[o].complete
       IN
        /\ remote[o].orderStatus = "Closed"
        /\ last_poll' = [NoPoll EXCEPT !.order_id = o, !.remote = "Closed",
                                       !.units = n,
                                       !.status_changed = status_changed(b, "Closed"),
                                       !.status_error = error2 \/ error3,
                                       !.completion_note = status_changed(b, "Closed")]
        /\ IF error2
           THEN \* check_backorder_completion False: mark completed, then remove
                /\ backorders' = update_backorder_status(backorders, o, "completed", TRUE)
                /\ tpc' = "remove"
                /\ UNCHANGED completed_numbers
           ELSE IF error3 \/ n = 0
           THEN \* process_completed_backorder returns False before any write
                /\ tpc' = "remove"
                /\ UNCHANGED <<backorders, completed_numbers>>
           ELSE /\ backorders' = update_backorder_status(backorders, o, "completed", TRUE)
                /\ completed_numbers' = n
                /\ tpc' = "process"
    /\ everCompleted' = NoteCompleted(backorders', everCompleted)
    /\ UNCHANGED <<remote, running, hpc, pending_backorders, process_result,
                   consecutive_failures, last_status_updates, sinceNote, addCount,
                   processRuns>>

\* an entry that books the first number as added before the loop runs
ProcessCompletedOrder_FirstPresumed(mcp_up) ==
    /\ UNCHANGED <<dispatcherVars, tpc2>>
    /\ tpc = "process"
    /\ LET o == Head(pending_backorders).order_id IN
        processRuns' = [processRuns EXCEPT ![o] = @ + 1]
    /\ process_result' = [NoResult EXCEPT !.order_id = Head(pending_backorders).order_id,
                                          !.error = ~mcp_up,
                                          !.successful_additions = IF mcp_up THEN 1 ELSE 0]
    /\ consecutive_failures' = 0
    /\ tpc' = IF mcp_up /\ completed_numbers > 1 THEN "register" ELSE "notify"
    /\ UNCHANGED <<backorders, remote, running, hpc, pending_backorders,
                   completed_numbers, last_status_updates, sinceNote, last_poll,
                   everCompleted, addCount>>

\* process_completed_order is entered: MCPNumberInventory() raises ValueError
\* when the MCP credentials are missing (mcp_up false), and the result is then
\* the error dict
ProcessCompletedOrder(mcp_up) ==
    /\ UNCHANGED <<dispatcherVars, tpc2>>
    /\ tpc = "process"
    /\ LET o == Head(pending_backorders).order_id IN
        processRuns' = [processRuns EXCEPT ![o] = @ + 1]
    /\ process_result' = [NoResult EXCEPT !.order_id = Head(pending_backorders).order_id,
                                          !.error = ~mcp_up]
    /\ consecutive_failures' = 0
    /\ tpc' = IF mcp_up THEN "register" ELSE "notify"
    /\ UNCHANGED <<backorders, remote, running, hpc, pending_backorders,
                   completed_numbers, last_status_updates, sinceNote, last_poll,
                   everCompleted, addCount>>

\* add_numbers_to_inventory builds the payload and posts it: nothing in front of
\* requests.post looks at earlier failures, the call is never refused
breaker_open(failures) == FALSE

\* an iteration that gives up the addition when the block request fails
RegisterUnit_BlockDecides(reg_ok, block_ok) ==
    /\ UNCHANGED <<dispatcherVars, tpc2>>
    /\ tpc = "register"
    /\ LET sent == ~breaker_open(consecutive_failures)
           ok == sent /\ reg_ok
           r == process_result
       IN
        /\ consecutive_failures' = IF ok THEN 0 ELSE consecutive_failures + 1
        /\ process_result' =
              IF ok /\ block_ok
              THEN [r EXCEPT !.requests = @ + 1,
                             !.successful_additions = @ + 1,
                             !.successful_blocks = IF block_ok THEN @ + 1 ELSE @,
                             !.failed_blocks = IF block_ok THEN @ ELSE @ + 1]
              ELSE [r EXCEPT !.requests = IF sent THEN @ + 1 ELSE @,
                             !.failed_blocks = IF ok THEN @ + 1 ELSE @,
                             !.failed_additions = @ + 1]
        /\ tpc' = IF process_result'.successful_additions
                       + process_result'.failed_additions = completed_numbers
                  THEN "notify" ELSE "register"
    /\ UNCHANGED <<backorders, remote, running, hpc, pending_backorders,
                   completed_numbers, last_status_updates, sinceNote, last_poll,
                   everCompleted, addCount, processRuns>>

\* one iteration of `for number in completed_numbers`: the register request
\* and, after a success, the block request
RegisterUnit(reg_ok, block_ok) ==
    /\ UNCHANGED <<dispatcherVars, tpc2>>
    /\ tpc = "register"
    /\ LET sent == ~breaker_open(consecutive_failures)
           ok == sent /\ reg_ok
           r == process_result
       IN
        /\ consecutive_failures' = IF ok THEN 0 ELSE consecutive_failures + 1
        /\ process_result' =
              IF ok
              THEN [r EXCEPT !.requests = @ + 1,
                             !.successful_additions = @ + 1,
                             !.successful_blocks = IF block_ok THEN @ + 1 ELSE @,
                             !.failed_blocks = IF block_ok THEN @ ELSE @ + 1]
              ELSE [r EXCEPT !.requests = IF sent THEN @ + 1 ELSE @,
                             !.failed_additions = @ + 1]
        /\ tpc' = IF process_result'.successful_additions
                       + process_result'.failed_additions = completed_numbers
                  THEN "notify" ELSE "register"
    /\ UNCHANGED <<backorders, remote, running, hpc, pending_backorders,
                   completed_numbers, last_status_updates, sinceNote, last_poll,
                   everCompleted, addCount, processRuns>>

\* the comments process_completed_backorder posts for a result:
\* update_zendesk_with_mcp_status always, update_zendesk_ticket after a success
CommentsFor(r) == IF r.successful_additions > 0 THEN 2 ELSE 1

\* back in process_completed_backorder: the branches on process_result post
\* the comments, and the result goes out of scope
NotifyPipeline ==
    /\ UNCHANGED <<dispatcherVars, tpc2>>
    /\ tpc = "notify"
    /\ last_poll' = [last_poll EXCEPT !.comments = CommentsFor(process_result)]
    /\ process_result' = NoResult
    /\ consecutive_failures' = 0
    /\ completed_numbers' = 0
    /\ tpc' = "remove"
    /\ UNCHANGED <<backorders, remote, running, hpc, pending_backorders,
                   last_status_updates, sinceNote, everCompleted, addCount,
                   processRuns>>

\* clear_backorder_timers, remove_completed_backorder, continue
RemoveCompleted ==
    /\ UNCHANGED <<dispatcherVars, tpc2>>
    /\ tpc = "remove"
    /\ LET o == Head(pending_backorders).order_id IN
        /\ last_status_updates' = last_status_updates \ {o}
        /\ backorders' = remove_completed_backorder(backorders, o)
    /\ pending_backorders' = Tail(pending_backorders)
    /\ tpc' = NextOrder(pending_backorders)
    /\ last_poll' = NoPoll
    /\ UNCHANGED <<remote, running, hpc, completed_numbers, process_result,
                   consecutive_failures, sinceNote, everCompleted, addCount,
                   processRuns>>

\* the steps of the tracking thread
ThreadNext ==
    \/ LoopExit
    \/ TickStart
    \/ \E due \in SUBSET Orders : Wake(due)
    \/ PollError
    \/ PollRaise
    \/ \E due_passed \in BOOLEAN : PollPending(due_passed)
    \/ \E error2, error3 \in BOOLEAN : PollClosed(error2, error3)
    \/ \E mcp_up \in BOOLEAN : ProcessCompletedOrder(mcp_up)
    \/ \E reg_ok, block_ok \in BOOLEAN : RegisterUnit(reg_ok, block_ok)
    \/ NotifyPipeline
    \/ RemoveCompleted

TrackerNext ==
    \/ \E o \in Orders, q \in {MaxQty}, tk \in Tickets : AddBackorder(o, q, tk, TRUE)
    \/ \E o \in Orders, n \in 0..MaxUnits : RemoteClose(o, n)
    \/ start_tracking
    \/ stop_tracking
    \/ JoinThread
    \/ ThreadNext

\* ------------------------------------------------------------- dispatcher
TicketOf(i) == inv[i].ticket
NodeOf(i) == inv[i].node

DispatcherInit ==
    /\ ipc = [i \in Invs |-> "idle"]
    /\ inv = [i \in Invs |-> [ticket |-> 1, node |-> 1]]
    /\ file_lock = [n \in Nodes |-> [t \in Tickets |-> Free]]
    /\ redis_lock = [t \in Tickets |-> Free]
    /\ tickets = [t \in Tickets |-> "absent"]
    /\ pend = [i \in Invs |-> "none"]
    /\ result = [i \in Invs |-> "none"]
    /\ mcp_payload = 0
    /\ trace = [i \in Invs |-> {}]

\* the except clauses of zendesk_webhook: exception -> "status" of the response;
\* a value returned from inside the with block is the response itself
ResponseFor_TimeoutAsError(x) ==
    CASE x = "LockNotOwnedError" -> "skipped - lock expired"
      [] x \in {"Timeout", "LockError", "Exception"} -> "error"
      [] OTHER -> x

ResponseFor(x) ==
    CASE x = "Timeout" -> "skipped - lock held elsewhere"
      [] x = "LockNotOwnedError" -> "skipped - lock expired"
      [] x \in {"LockError", "Exception"} -> "error"
      [] OTHER -> x

AlreadyProcessed_Never(row) == FALSE

\* if row and row[0] == 1
AlreadyProcessed(row) == row = "1"

InsertOrIgnore_Replace(row) == "0"

\* INSERT OR IGNORE INTO tickets (ticket_id, subject, body): processed defaults to 0
InsertOrIgnore(row) == IF row = "absent" THEN "0" ELSE row

UpdateProcessed_BodyOnly(row) == row

\* UPDATE tickets SET ..., processed = 1 WHERE ticket_id = ?
UpdateProcessed(row) == IF row = "absent" THEN row ELSE "1"

\* what handle_user_request hands back: it raises, returns None or a str (the
\* dispatcher's .get then raises AttributeError), a skip_update dict, or a result
Outcomes == {"raise", "nodict", "skip", "ok"}

AfterAction_Swallow(outcome) ==
    CASE outcome = "skip" -> [pc |-> "exit", pend |-> "ignored - not a number request"]
      [] OTHER -> [pc |-> "tag", pend |-> "none"]

\* the statements after the call: where the invocation goes and what leaves
\* the with block
AfterAction(outcome) ==
    CASE outcome \in {"raise", "nodict"} -> [pc |-> "exit", pend |-> "Exception"]
      [] outcome = "skip" -> [pc |-> "exit", pend |-> "ignored - not a number request"]
      [] OTHER -> [pc |-> "tag", pend |-> "none"]

Did(i, e) == trace' = [trace EXCEPT ![i] = @ \cup {e}]

\* a POST with a ticket id whose status is not "hold"
Receive(i, t, n) ==
    /\ UNCHANGED <<trackerVars, mcp_payload>>
    /\ ipc[i] = "idle"
    \* requests, tickets and nodes are numbered in the order they first appear
    /\ \A j \in Invs : j < i => ipc[j] # "idle"
    /\ t = 1 \/ \E j \in Invs : ipc[j] # "idle" /\ inv[j].ticket = t - 1
    /\ n = 1 \/ \E j \in Invs : ipc[j] # "idle" /\ inv[j].node = n - 1
    /\ inv' = [inv EXCEPT ![i] = [ticket |-> t, node |-> n]]
    /\ ipc' = [ipc EXCEPT ![i] = "file"]
    /\ UNCHANGED <<file_lock, redis_lock, tickets, pend, result, trace>>

\* with file_lock: the lock file is free
AcquireFile(i) ==
    /\ UNCHANGED <<trackerVars, mcp_payload>>
    /\ ipc[i] = "file"
    /\ file_lock[NodeOf(i)][TicketOf(i)] = Free
    /\ file_lock' = [file_lock EXCEPT ![NodeOf(i)][TicketOf(i)] = i]
    /\ ipc' = [ipc EXCEPT ![i] = "redis"]
    /\ UNCHANGED <<inv, redis_lock, tickets, pend, result, trace>>

\* FileLock(timeout=1) raises Timeout: the lock file stayed held for a second
FileTimeout(i) ==
    /\ UNCHANGED <<trackerVars, mcp_payload>>
    /\ ipc[i] = "file"
    /\ file_lock[NodeOf(i)][TicketOf(i)] # Free
    /\ result' = [result EXCEPT ![i] = ResponseFor("Timeout")]
    /\ ipc' = [ipc EXCEPT ![i] = "done"]
    /\ Did(i, "file_timeout")
    /\ UNCHANGED <<inv, file_lock, redis_lock, tickets, pend>>

\* with redis_lock: SET NX PX 30000 succeeds
AcquireRedis(i) ==
    /\ UNCHANGED <<trackerVars, mcp_payload>>
    /\ ipc[i] = "redis"
    /\ redis_lock[TicketOf(i)] = Free
    /\ redis_lock' = [redis_lock EXCEPT ![TicketOf(i)] = i]
    /\ ipc' = [ipc EXCEPT ![i] = "read"]
    /\ Did(i, "redis_acquired")
    /\ UNCHANGED <<inv, file_lock, tickets, pend, result>>

\* Lock.__enter__ raises LockError after blocking_timeout=1; the file lock's
\* __exit__ runs, and the LockError reaches `except Exception`
RedisTimeout(i) ==
    /\ UNCHANGED <<trackerVars, mcp_payload>>
    /\ ipc[i] = "redis"
    /\ redis_lock[TicketOf(i)] # Free
    /\ file_lock' = [file_lock EXCEPT ![NodeOf(i)][TicketOf(i)] = Free]
    /\ result' = [result EXCEPT ![i] = ResponseFor("LockError")]
    /\ ipc' = [ipc EXCEPT ![i] = "done"]
    /\ Did(i, "redis_timeout")
    /\ UNCHANGED <<inv, redis_lock, tickets, pend>>

\* SELECT processed FROM tickets WHERE ticket_id = ?
ReadProcessed(i) ==
    /\ UNCHANGED <<trackerVars, mcp_payload>>
    /\ ipc[i] = "read"
    /\ IF AlreadyProcessed(tickets[TicketOf(i)])
       THEN /\ pend' = [pend EXCEPT ![i] = "already processed"]
            /\ ipc' = [ipc EXCEPT ![i] = "exit"]
       ELSE /\ ipc' = [ipc EXCEPT ![i] = "insert"]
            /\ UNCHANGED pend
    /\ Did(i, IF tickets[TicketOf(i)] = "1" THEN "read_1" ELSE "read_0")
    /\ UNCHANGED <<inv, file_lock, redis_lock, tickets, result>>

InsertTicket(i) ==
    /\ UNCHANGED <<trackerVars, mcp_payload>>
    /\ ipc[i] = "insert"
    /\ tickets' = [tickets EXCEPT ![TicketOf(i)] = InsertOrIgnore(@)]
    /\ ipc' = [ipc EXCEPT ![i] = "action"]
    /\ Did(i, IF tickets[TicketOf(i)] = "1" THEN "insert_on_1" ELSE "insert")
    /\ UNCHANGED <<inv, file_lock, redis_lock, pend, result>>

\* add_numbers_to_inventory builds one payload out of the list it is given and
\* posts it once: the numbers one request carries
NumbersPerRequest(numbers) == numbers

HandleUserRequest_SkipUpdates(i, outcome, reserved) ==
    /\ UNCHANGED trackerVars
    /\ ipc[i] = "action"
    /\ reserved > 0 => outcome = "ok"
    /\ mcp_payload' = IF reserved > 0 THEN NumbersPerRequest(reserved)
                      ELSE mcp_payload
    /\ ipc' = [ipc EXCEPT ![i] = AfterAction(outcome).pc]
    /\ pend' = [pend EXCEPT ![i] = AfterAction(outcome).pend]
    /\ trace' = [trace EXCEPT ![i] = @ \cup {"action", outcome}]
    /\ tickets' = [tickets EXCEPT ![TicketOf(i)] =
                      IF outcome = "skip" THEN UpdateProcessed(@) ELSE @]
    /\ UNCHANGED <<inv, file_lock, redis_lock, result>>

\* handle_user_request(prompt, ticket_id) comes back; when it found numbers
\* (reserved of them) it has ordered them, and order_reserved_numbers has handed
\* the whole list to add_numbers_to_inventory
HandleUserRequest(i, outcome, reserved) ==
    /\ UNCHANGED trackerVars
    /\ ipc[i] = "action"
    /\ reserved > 0 => outcome = "ok"
    /\ mcp_payload' = IF reserved > 0 THEN NumbersPerRequest(reserved)
                      ELSE mcp_payload
    /\ ipc' = [ipc EXCEPT ![i] = AfterAction(outcome).pc]
    /\ pend' = [pend EXCEPT ![i] = AfterAction(outcome).pend]
    /\ trace' = [trace EXCEPT ![i] = @ \cup {"action", outcome}]
    /\ UNCHANGED <<inv, file_lock, redis_lock, tickets, result>>

\* the result dict is back in zendesk_webhook: the request of the call is over
TagTicket(i) ==
    /\ UNCHANGED trackerVars
    /\ mcp_payload' = 0
    /\ ipc[i] = "tag"
    /\ ipc' = [ipc EXCEPT ![i] = "update"]
    /\ Did(i, "tag")
    /\ UNCHANGED <<inv, file_lock, redis_lock, tickets, pend, result>>

UpdateTicket(i) ==
    /\ UNCHANGED <<trackerVars, mcp_payload>>
    /\ ipc[i] = "update"
    /\ tickets' = [tickets EXCEPT ![TicketOf(i)] = UpdateProcessed(@)]
    /\ ipc' = [ipc EXCEPT ![i] = "comment"]
    /\ Did(i, "update")
    /\ UNCHANGED <<inv, file_lock, redis_lock, pend, result>>

PostComment(i) ==
    /\ UNCHANGED <<trackerVars, mcp_payload>>
    /\ ipc[i] = "comment"
    /\ ipc' = [ipc EXCEPT ![i] = "sleep"]
    /\ Did(i, "comment")
    /\ UNCHANGED <<inv, file_lock, redis_lock, tickets, pend, result>>

\* time.sleep(30); return success: the 30 s TTL has run out by now
Sleep30(i) ==
    /\ UNCHANGED <<trackerVars, mcp_payload>>
    /\ ipc[i] = "sleep"
    /\ redis_lock' = [redis_lock EXCEPT ![TicketOf(i)] = IF @ = i THEN Free ELSE @]
    /\ pend' = [pend EXCEPT ![i] = "success"]
    /\ ipc' = [ipc EXCEPT ![i] = "exit"]
    /\ UNCHANGED <<inv, file_lock, tickets, result, trace>>

\* a key set without expiry
RedisExpire_NoTTL(t) ==
    /\ FALSE
    /\ UNCHANGED vars

\* the key lock:ticket:<id> expires while its holder is in or past the call
\* of handle_user_request
RedisExpire(t) ==
    /\ UNCHANGED <<trackerVars, mcp_payload>>
    /\ redis_lock[t] # Free
    /\ ipc[redis_lock[t]] \in {"action", "tag", "update", "comment", "sleep", "exit"}
    /\ "action" \in trace[redis_lock[t]] \/ ipc[redis_lock[t]] = "action"
    /\ redis_lock' = [redis_lock EXCEPT ![t] = Free]
    /\ UNCHANGED <<ipc, inv, file_lock, tickets, pend, result, trace>>

\* leaving the with block: redis_lock.release() deletes the key if this
\* invocation's token is still in it and raises LockNotOwnedError otherwise;
\* then the file lock is released
ExitWith(i) ==
    /\ UNCHANGED <<trackerVars, mcp_payload>>
    /\ ipc[i] = "exit"
    /\ IF redis_lock[TicketOf(i)] = i
       THEN /\ redis_lock' = [redis_lock EXCEPT ![TicketOf(i)] = Free]
            /\ result' = [result EXCEPT ![i] = ResponseFor(pend[i])]
       ELSE /\ result' = [result EXCEPT ![i] = ResponseFor("LockNotOwnedError")]
            /\ UNCHANGED redis_lock
    /\ file_lock' = [file_lock EXCEPT ![NodeOf(i)][TicketOf(i)] = Free]
    /\ ipc' = [ipc EXCEPT ![i] = "done"]
    /\ UNCHANGED <<inv, tickets, pend, trace>>

DispatcherNext ==
    \/ \E i \in Invs, t \in Tickets, n \in Nodes : Receive(i, t, n)
    \/ \E i \in Invs : AcquireFile(i)
    \/ \E i \in Invs : FileTimeout(i)
    \/ \E i \in Invs : AcquireRedis(i)
    \/ \E i \in Invs : RedisTimeout(i)
    \/ \E i \in Invs : ReadProcessed(i)
    \/ \E i \in Invs : InsertTicket(i)
    \/ \E i \in Invs, outcome \in Outcomes, reserved \in 0..MaxUnits :
          HandleUserRequest(i, outcome, reserved)
    \/ \E i \in Invs : TagTicket(i)
    \/ \E i \in Invs : UpdateTicket(i)
    \/ \E i \in Invs : PostComment(i)
    \/ \E i \in Invs : Sleep30(i)
    \/ \E t \in Tickets : RedisExpire(t)
    \/ \E i \in Invs : ExitWith(i)

\* --------------------------------------------------------- specifications
Init == TrackerInit /\ DispatcherInit

Next == TrackerNext \/ DispatcherNext

Spec == Init /\ [][Next]_vars

\* the tracker process and the provider, the webhook idle
SpecTracker == Init /\ [][TrackerNext]_vars

\* the tracker where sqlite may fail under add_backorder (the webhook process
\* writes the file the tracker is writing) and where start_tracking has a
\* second caller
FaultNext ==
    \/ TrackerNext
    \/ \E o \in Orders, q \in {MaxQty}, tk \in Tickets : AddBackorder(o, q, tk, FALSE)
    \/ RacingStart

SpecTrackerFaults == Init /\ [][FaultNext]_vars

\* the tracker with backorders of one ticket that Inteliquent closes with none
\* or all of their numbers
StopNext ==
    \/ \E o \in Orders : AddBackorder(o, MaxQty, 1, TRUE)
    \/ \E o \in Orders, n \in {0, MaxUnits} : RemoteClose(o, n)
    \/ start_tracking
    \/ stop_tracking
    \/ JoinThread
    \/ ThreadNext

\* the tracking thread being scheduled as long as it has a step to take (every
\* sleep ends, every call returns)
SpecTrackerFair == Init /\ [][StopNext]_vars /\ WF_vars(ThreadNext)

\* the webhook invocations, the tracker idle
SpecDispatcher == Init /\ [][DispatcherNext]_vars

\* deliveries of the trigger of one ticket, where Redis drops an expired key in
\* the end whatever the workers do: no step of an invocation is required to
\* happen, so a worker may stop for good at any statement
RetryNext ==
    \/ \E i \in Invs, n \in Nodes : Receive(i, 1, n)
    \/ \E i \in Invs : AcquireFile(i)
    \/ \E i \in Invs : FileTimeout(i)
    \/ \E i \in Invs : AcquireRedis(i)
    \/ \E i \in Invs : RedisTimeout(i)
    \/ \E i \in Invs : ReadProcessed(i)
    \/ \E i \in Invs : InsertTicket(i)
    \/ \E i \in Invs, outcome \in Outcomes, reserved \in 0..MaxUnits :
          HandleUserRequest(i, outcome, reserved)
    \/ \E i \in Invs : TagTicket(i)
    \/ \E i \in Invs : UpdateTicket(i)
    \/ \E i \in Invs : PostComment(i)
    \/ \E i \in Invs : Sleep30(i)
    \/ \E t \in Tickets : RedisExpire(t)
    \/ \E i \in Invs : ExitWith(i)

SpecDispatcherFair ==
    Init /\ [][RetryNext]_vars /\ \A t \in Tickets : WF_vars(RedisExpire(t))

\* ------------------------------------------------------------ observations
Pending(o) == backorders[o] # NoRow /\ backorders[o].status = "pending"
Started(i) == ipc[i] # "idle"
InvsOf(t) == {i \in Invs : Started(i) /\ TicketOf(i) = t}
Holds(i) == \/ file_lock[NodeOf(i)][TicketOf(i)] = i
            \/ redis_lock[TicketOf(i)] = i
ActionRuns(t) == Cardinality({i \in InvsOf(t) : "action" \in trace[i]})
ProcessedWrites(t) == Cardinality({i \in InvsOf(t) : "update" \in trace[i]})
Comments(t) == Cardinality({i \in InvsOf(t) : "comment" \in trace[i]})
Inserted(i) == "insert" \in trace[i] \/ "insert_on_1" \in trace[i]
\* the order the loop body is working on, and the poll that started the work
Current == Head(pending_backorders)
InPipeline == tpc \in {"process", "register", "notify"}
ThreadStep == tpc' # tpc \/ process_result' # process_result
NewPoll == tpc = "poll" /\ last_poll' # last_poll
ClosedWithUnits(p) == p.remote = "Closed" /\ ~p.status_error /\ p.units > 0
\* comments the tick has posted for the order: the completion note and those of
\* process_completed_backorder
Notifications(p) == (IF p.completion_note THEN 1 ELSE 0) + p.comments

\* ------------------------------------------------------------------ claims

\* C1 (as claimed): an order whose stored status has been completed is never
\* stored as pending again, over any add_backorder calls and poll ticks.
C1_StatusNeverRevertsToPending ==
    \A o \in Orders : everCompleted[o] => ~Pending(o)

\* C2 (as claimed): for every order id, process_completed_order (the register and
\* block calls and the completion comment that follows them) runs at most once.
C2_PipelineAtMostOncePerOrder ==
    \A o \in Orders : processRuns[o] <= 1

\* C3 (as claimed): webhook invocations for one ticket whose domain action
\* neither raises nor skips execute handle_user_request at most once and write
\* processed = 1 at most once between them, also when the action outlasts the
\* Redis lock's TTL.
C3_OneExecutionOneWrite ==
    \A t \in Tickets :
        (\A i \in InvsOf(t) : trace[i] \cap {"raise", "nodict", "skip"} = {})
            => ActionRuns(t) <= 1 /\ ProcessedWrites(t) <= 1

\* C4 (as claimed): however often the trigger for a ticket is delivered, at most
\* one result comment (post_zendesk_comment of the action's output) is posted.
C4_OneResultNotification ==
    \A t \in Tickets : Comments(t) <= 1

\* C5: the processed column of a ticket row never goes back from 1 (so it turns
\* from 0 to 1 at most once); the INSERT OR IGNORE on an existing row keeps it.
C5_ProcessedNeverReverts ==
    [][\A t \in Tickets : tickets[t] = "1" => tickets'[t] = "1"]_vars

C5_Witness ==
    \E i \in Invs : "insert_on_1" \in trace[i] /\ tickets[TicketOf(i)] = "1"

\* C6: an invocation that reads processed = 1 under both locks does nothing else:
\* no insert, no domain action, no tag, no update, no comment; it answers
\* "already processed" and ends holding neither lock.
C6_AlreadyProcessedIsNoOp ==
    \A i \in Invs :
        "read_1" \in trace[i] =>
            /\ trace[i] = {"redis_acquired", "read_1"}
            /\ ipc[i] \in {"exit", "done"}
            /\ ipc[i] = "done" => result[i] = "already processed" /\ ~Holds(i)

C6_Witness ==
    \E i \in Invs : ipc[i] = "done" /\ "read_1" \in trace[i]

\* C7: an invocation whose domain action raised writes no processed = 1, tags and
\* comments nothing, and ends holding neither lock; unless another invocation
\* wrote it, processed is still 0, so a later delivery runs the action again.
C7_RaiseLeavesUnprocessed ==
    \A i \in Invs :
        "raise" \in trace[i] =>
            /\ trace[i] \cap {"tag", "update", "comment"} = {}
            /\ ProcessedWrites(TicketOf(i)) = 0 => tickets[TicketOf(i)] = "0"
            /\ ipc[i] = "done" => ~Holds(i)

C7_Witness ==
    \E i, j \in Invs :
        /\ i # j /\ ipc[i] = "done" /\ "raise" \in trace[i]
        /\ Started(j) /\ inv[j] = inv[i] /\ ipc[j] # "done"
        /\ "read_0" \in trace[j] /\ "action" \in trace[j]

\* C8 (as claimed): an invocation that ran the domain action without the action
\* raising has written processed = 1 by the time it ends.
C8_WritesWheneverActionReturns ==
    \A i \in Invs :
        (ipc[i] = "done" /\ "action" \in trace[i] /\ "raise" \notin trace[i])
            => "update" \in trace[i]

\* C8 (amended): an invocation that reads processed 0 or no row inserts the row
\* and runs the domain action; when the action returns a result dict without
\* skip_update, processed = 1 is written before the invocation ends.
C8_WritesWhenActionReturnsResult ==
    \A i \in Invs :
        /\ ("read_0" \in trace[i] /\ ipc[i] = "done")
              => Inserted(i) /\ "action" \in trace[i]
        /\ ("ok" \in trace[i] /\ ipc[i] = "done")
              => "update" \in trace[i] /\ tickets[TicketOf(i)] = "1"

C8_Witness ==
    \E i \in Invs : ipc[i] = "done" /\ "ok" \in trace[i] /\ tickets[TicketOf(i)] = "1"

\* C9: an invocation whose FileLock times out answers "skipped - lock held
\* elsewhere" and has done nothing else: the Redis lock is not taken, the tickets
\* table is neither read nor written, no domain action, tag or comment.
C9_FileLockTimeoutNoSideEffects ==
    \A i \in Invs :
        "file_timeout" \in trace[i] =>
            /\ trace[i] = {"file_timeout"}
            /\ ipc[i] = "done"
            /\ result[i] = "skipped - lock held elsewhere"
            /\ ~Holds(i)

C9_Witness ==
    \E i \in Invs : "file_timeout" \in trace[i]

\* C10 (as claimed): an invocation that holds the file lock but cannot get the
\* Redis lock releases the file lock, runs no domain action, writes nothing and
\* answers with a benign "skipped" status, not with an error.
C10_RedisContentionIsBenign ==
    \A i \in Invs :
        "redis_timeout" \in trace[i] =>
            /\ trace[i] = {"redis_timeout"}
            /\ ~Holds(i)
            /\ result[i] \in {"skipped - lock held elsewhere", "skipped - lock expired"}

\* C11 (as claimed): when the pipeline has handled a Closed order with F complete
\* numbers, 0 < F < quantity, it has sent F register requests, the order has been
\* stored as completed, and exactly one other order is pending with quantity
\* quantity - F and the same ticket id.
C11_ShortfallIsReordered ==
    (tpc = "notify" /\ ~process_result.error
        /\ completed_numbers < Current.quantity)
    => /\ process_result.requests = completed_numbers
       /\ everCompleted[Current.order_id]
       /\ Cardinality({p \in Orders \ {Current.order_id} :
              /\ Pending(p)
              /\ backorders[p].quantity = Current.quantity - completed_numbers
              /\ backorders[p].ticket_id = Current.ticket_id}) = 1

\* C12 (as claimed): when the tick has handled a Closed order whose payload has
\* no Complete number (all status calls answering), the order has been stored as
\* completed, the MCP pipeline has not run, and one comment has been posted.
C12_ZeroUnitsStoredCompleted ==
    (tpc = "remove" /\ last_poll.remote = "Closed" /\ ~last_poll.status_error
        /\ last_poll.units = 0)
    => /\ everCompleted[Current.order_id]
       /\ last_poll.comments = 0
       /\ Notifications(last_poll) = 1

C14_OneNotificationPerCompletion ==
    (tpc = "remove" /\ last_poll.comments > 0) => Notifications(last_poll) = 1

\* C15 (as claimed): with polls every 10 minutes, a pending order whose poll
\* answers gets a status note exactly when it has had none yet or its last one
\* is at least 4 hours old (floor(D / N) + 1 notes over a duration D), so two
\* status notes of one order are never less than 4 hours apart.
C15_StatusNotesFourHoursApart ==
    [][(NewPoll /\ last_poll'.remote = "pending")
         => (last_poll'.status_note
               <=> sinceNote[last_poll'.order_id] \in {"never", "due"})]_vars

\* C16 (as claimed): a poll that finds the order not Closed and its desired due
\* date in the past stores the status "stopped" for it, so that no later tick
\* lists it.
C16_PastDueOrderIsStopped ==
    [][(NewPoll /\ last_poll'.remote = "pending" /\ last_poll'.due_passed)
         => /\ backorders'[last_poll'.order_id] # NoRow
            /\ backorders'[last_poll'.order_id].status = "stopped"]_vars

\* C17 (as claimed): when a status call made for an order in a tick returns an
\* error, the table is left as it was, the order is not on its way to being
\* removed, and the MCP pipeline is not entered.
C17_StatusErrorChangesNothing ==
    [][(NewPoll /\ last_poll'.status_error)
         => /\ backorders' = backorders
            /\ tpc' \in {"poll", "sleep"}]_vars

\* C18: an exception raised in the loop body ends the tick without ending the
\* thread: the thread goes into the 3600 s sleep instead of the 600 s one, writes
\* nothing, comes back to the while test, leaves the loop only when running is
\* false, and starts a tick when it is true.
C18_ExceptionBacksOffAndContinues ==
    [][/\ (NewPoll /\ last_poll'.remote = "raise")
            => /\ tpc' \in {"sleep", "backoff"}
               /\ SleepSeconds(tpc') = 3600
               /\ SleepSeconds(tpc') > SleepSeconds("sleep")
               /\ backorders' = backorders /\ running' = running
       /\ (tpc = "backoff" /\ tpc' # tpc) => tpc' = "top"
       /\ (tpc = "top" /\ tpc' = "exited") => ~running
       /\ (tpc = "top" /\ tpc' # tpc /\ running) => tpc' \in {"poll", "sleep"}
      ]_vars

C18_Witness ==
    tpc = "top" /\ running /\ last_poll.remote = "backoff"

\* C19: once stop_tracking has cleared running, the thread starts no tick, the
\* tick in progress runs on to its end (the thread leaves the loop only at the
\* while test), stop_tracking returns only when the thread has left the loop,
\* and the thread does leave it.
C19_StopLetsTheTickFinish ==
    /\ [][/\ hpc = "join" => ~(tpc = "top" /\ tpc' \in {"poll", "sleep"})
          /\ (tpc # "exited" /\ tpc' = "exited") => (tpc = "top" /\ ~running)
          /\ (hpc = "join" /\ hpc' = "idle") => tpc = "exited"
          /\ (hpc = "join" /\ InPipeline /\ tpc' # tpc)
                => tpc' \in {"register", "notify", "remove"}
         ]_vars
    /\ (hpc = "join") ~> (tpc = "exited")

C19_Witness ==
    hpc = "join" /\ tpc = "register" /\ ~running

\* C20 (as claimed): the register call is guarded by a breaker that is open
\* exactly when failureThreshold register calls in a row have failed.
C20_BreakerOpensAtThreshold ==
    breaker_open(consecutive_failures) <=> consecutive_failures >= failureThreshold

\* C21 (as claimed): a register call made when failureThreshold register calls
\* in a row have just failed (the breaker is Open, and the calls of one
\* process_completed_order follow each other at once) fails without a request
\* to the MCP server.
C21_OpenBreakerFailsFast ==
    [][(tpc = "register" /\ process_result' # process_result
          /\ consecutive_failures >= failureThreshold)
         => /\ process_result'.requests = process_result.requests
            /\ process_result'.failed_additions = process_result.failed_additions + 1
      ]_vars

\* C22 (as claimed): a register request that goes out after failureThreshold
\* failures in a row is the one trial call of a HalfOpen breaker: when it
\* succeeds the failure counter is zero and the breaker Closed, when it fails
\* the breaker is Open again.
C22_TrialCallDecides ==
    [][(tpc = "register" /\ consecutive_failures >= failureThreshold
          /\ process_result'.requests = process_result.requests + 1)
         => IF process_result'.successful_additions
                 = process_result.successful_additions + 1
            THEN consecutive_failures' = 0 /\ ~breaker_open(consecutive_failures')
            ELSE breaker_open(consecutive_failures')
      ]_vars

\* C23 (as claimed): no step of the tracking thread deletes a row of the table,
\* and a row it has stored as completed stays in the table as completed.
C23_RowIsNeverDeleted ==
    [][addCount' = addCount
         => \A o \in Orders :
              /\ backorders[o] # NoRow => backorders'[o] # NoRow
              /\ is_backorder_completed(backorders, o)
                    => is_backorder_completed(backorders', o)
      ]_vars

\* C24 (as claimed): every register request carries exactly one number, on the
\* completion path (one request per RegisterUnit step) and on the order path.
C24_OneNumberPerRegisterRequest ==
    /\ mcp_payload <= 1
    /\ process_result.requests
         <= process_result.successful_additions + process_result.failed_additions

\* C25 (as claimed): when a tick has seen an order Closed with numbers in its
\* payload, every one of them has gone through a register call (and is counted
\* as a successful or a failed addition) before the row is removed.
C25_EveryNumberIsRegistered ==
    /\ tpc = "notify"
         => /\ process_result.requests = completed_numbers
            /\ process_result.successful_additions
                 + process_result.failed_additions = completed_numbers
    /\ (tpc = "remove" /\ last_poll.remote = "Closed" /\ last_poll.units > 0)
         => last_poll.comments > 0

\* C29 (as claimed): no status note is posted for an order while its previous
\* status note is less than 4 hours old, also when the tracker has been stopped
\* and started again in between.
C29_CadenceSurvivesRestart ==
    [][(NewPoll /\ last_poll'.status_note)
         => sinceNote[last_poll'.order_id] # "fresh"]_vars

\* C30 (as claimed): a poll that finds an order in the status an earlier poll
\* found it in (pending again) records no status change.
C30_SameStatusIsNoTransition ==
    [][(NewPoll /\ last_poll'.remote = "pending"
          /\ sinceNote[last_poll'.order_id] # "never")
         => ~last_poll'.status_changed]_vars

\* C26: in process_completed_order a block request is made for a number only in
\* the iteration whose register request succeeded, and once; when the block
\* fails the number is still a successful addition, the loop goes on to the
\* numbers that are left, and the result is not the error dict.
C26_BlockFailureIsNotFatal ==
    [][(tpc = "register" /\ process_result' # process_result)
         => LET r == process_result
                s == process_result'
                blocks == (s.successful_blocks + s.failed_blocks)
                          - (r.successful_blocks + r.failed_blocks)
            IN /\ blocks \in {0, 1}
               /\ blocks = 1 <=> s.successful_additions = r.successful_additions + 1
               /\ s.successful_blocks + s.failed_blocks <= s.successful_additions
               /\ s.failed_blocks = r.failed_blocks + 1
                    => /\ s.successful_additions = r.successful_additions + 1
                       /\ s.failed_additions = r.failed_additions
                       /\ ~s.error
                       /\ tpc' = IF s.successful_additions + s.failed_additions
                                     < completed_numbers
                                 THEN "register" ELSE "notify"
      ]_vars

C26_Witness ==
    /\ tpc = "register"
    /\ process_result.failed_blocks = 1
    /\ process_result.successful_additions = 1
    /\ ~process_result.error

\* C27: once a tick has got the answer Closed for an order, the handling of
\* the order comes to its end, whatever the later status calls and the register
\* and block calls return, and at that end the order's row is out of the table;
\* a tick polls only orders whose row it has just read as pending, and a row
\* comes (back) into the table only through add_backorder.
C27_ClosedOrderLeavesThePendingSet ==
    /\ (last_poll.remote = "Closed") ~> (last_poll.remote # "Closed")
    /\ [][/\ (last_poll.remote = "Closed" /\ last_poll'.remote # "Closed")
               => backorders'[last_poll.order_id] = NoRow
          /\ (tpc = "top" /\ tpc' = "poll")
               => \A k \in 1..Len(pending_backorders') :
                     Pending(pending_backorders'[k].order_id)
          /\ \A o \in Orders :
                (backorders[o] = NoRow /\ backorders'[o] # NoRow)
                   => addCount'[o] = addCount[o] + 1
         ]_vars

C27_Witness ==
    /\ tpc = "remove"
    /\ last_poll.remote = "Closed"
    /\ last_poll.units = MaxUnits
    /\ last_poll.comments = 1
    /\ Pending(Current.order_id) \/ is_backorder_completed(backorders, Current.order_id)

\* C28: the tick that finds an order Closed posts no status note for it and
\* sets no status-update timer for it, not even when a note is due: from the
\* status call to the removal of the row the timers only lose the order, and the
\* loop then goes on to the next order.
C28_NoCadenceForClosedOrder ==
    [][/\ (NewPoll /\ last_poll'.remote = "Closed")
            => /\ ~last_poll'.status_note
               /\ last_status_updates' = last_status_updates
               /\ sinceNote' = sinceNote
               /\ tpc' \in {"process", "remove"}
       /\ (tpc \in {"process", "register", "notify", "remove"} /\ tpc' # tpc)
            => /\ sinceNote' = sinceNote
               /\ last_status_updates' \subseteq last_status_updates
       /\ (tpc = "remove" /\ tpc' # tpc)
            => /\ Current.order_id \notin last_status_updates'
               /\ tpc' \in {"poll", "sleep"}
      ]_vars

C28_Witness ==
    /\ tpc = "remove"
    /\ last_poll.remote = "Closed"
    /\ ~last_poll.status_note
    /\ sinceNote[Current.order_id] = "due"
    /\ Current.order_id \in last_status_updates

\* C31 (as claimed): a pending row has no completion date, a completed row has
\* one, and a completion date once stored stays as long as the row is there.
C31_CompletionDateIsKept ==
    /\ [](\A o \in Orders :
            backorders[o] # NoRow
              => (backorders[o].completion_date
                    <=> backorders[o].status = "completed"))
    /\ [][\A o \in Orders :
            (backorders[o] # NoRow /\ backorders[o].completion_date
               /\ backorders'[o] # NoRow)
              => backorders'[o].completion_date]_vars

\* C35 (as claimed): an invocation that ran the action, stored processed = 1
\* and posted the result comment answers "success", whatever has become of the
\* Redis lock by the time the with block releases it.
C35_CompletedWorkAnswersSuccess ==
    \A i \in Invs :
        (ipc[i] = "done" /\ {"update", "comment"} \subseteq trace[i])
          => result[i] = "success"

\* C38: when handle_user_request returns a skip_update dict the invocation
\* leaves the with block with "ignored - not a number request": it never tags
\* the ticket, never runs the UPDATE and never posts a comment, and no step it
\* takes from the call on changes the tickets table, where the row it inserted
\* before the call stays.
C38_SkipChangesNothing ==
    [][\A i \in Invs :
          /\ ("skip" \in trace'[i] /\ "skip" \notin trace[i])
               => /\ ipc[i] = "action" /\ ipc'[i] = "exit"
                  /\ pend'[i] = "ignored - not a number request"
                  /\ tickets'[TicketOf(i)] = tickets[TicketOf(i)]
                  /\ tickets[TicketOf(i)] # "absent"
          /\ "skip" \in trace'[i]
               => trace'[i] \cap {"tag", "update", "comment"} = {}
          /\ ("skip" \in trace[i] /\ ipc'[i] # ipc[i])
               => /\ tickets' = tickets
                  /\ ipc'[i] = "done"
                  /\ result'[i] \in {"ignored - not a number request",
                                     "skipped - lock expired"}]_vars

C38_Witness ==
    \E i \in Invs :
        /\ ipc[i] = "done" /\ "skip" \in trace[i]
        /\ result[i] = "ignored - not a number request"
        /\ tickets[TicketOf(i)] = "0"

C37_PollerActsOnPendingOnly ==
    [][/\ (tpc = "top" /\ tpc' # tpc /\ tpc' # "exited")
            => /\ LET rows == {NoRow} \cup
                          {[status |-> s, quantity |-> 1, ticket_id |-> 1,
                            completion_date |-> d] :
                              s \in {"pending", "completed"}, d \in BOOLEAN}
                  IN \A db \in [Orders -> rows] :
                        LET l == get_pending_backorders(db) IN
                          /\ \A k \in 1..Len(l) : db[l[k].order_id] # NoRow
                                /\ db[l[k].order_id].status = "pending"
                          /\ \A j, k \in 1..Len(l) :
                                l[j].order_id = l[k].order_id => j = k
               /\ \A k \in 1..Len(pending_backorders') :
                     /\ Pending(pending_backorders'[k].order_id)
                     /\ ~is_backorder_completed(backorders,
                                                pending_backorders'[k].order_id)
               /\ last_poll' = NoPoll
       /\ (tpc # "top" /\ pending_backorders' # pending_backorders)
            => pending_backorders' \in {Tail(pending_backorders), <<>>}
       /\ last_poll' # last_poll
            => \/ last_poll'.order_id = 0
               \/ /\ pending_backorders # <<>>
                  /\ last_poll'.order_id = Current.order_id
       /\ (InPipeline /\ ThreadStep)
            => /\ pending_backorders # <<>>
               /\ last_poll.order_id = Current.order_id
               /\ tpc' \in {"register", "notify"}
                    => process_result'.order_id = Current.order_id]_vars

\* a tick is polling one order while the other, completed in an earlier tick,
\* is not in its list
C37_Witness ==
    /\ tpc = "poll"
    /\ Len(pending_backorders) = 1
    /\ \E o \in Orders :
          /\ everCompleted[o]
          /\ o # Current.order_id
          /\ ~Pending(o)
    /\ Pending(Current.order_id)

\* C32: a worker that stops or overruns in or after the domain action while it
\* holds the Redis lock of a ticket does not block the ticket for good: the key
\* expires, an invocation waiting for the Redis lock then gets it, and with
\* processed not 1 it goes on to the insert and to the domain action.
C32_ExpiredLockStopsBlocking ==
    /\ \A t \in Tickets :
          (/\ redis_lock[t] # Free
           /\ \/ ipc[redis_lock[t]] = "action"
              \/ "action" \in trace[redis_lock[t]])
            ~> (redis_lock[t] = Free)
    /\ [][\A i \in Invs :
            /\ (ipc[i] = "redis" /\ ipc'[i] # ipc[i]
                  /\ redis_lock[TicketOf(i)] = Free)
                 => /\ redis_lock'[TicketOf(i)] = i
                    /\ ipc'[i] = "read"
            /\ (ipc[i] = "read" /\ ipc'[i] # ipc[i]
                  /\ tickets[TicketOf(i)] # "1")
                 => ipc'[i] = "insert"
            /\ (ipc[i] = "insert" /\ ipc'[i] # ipc[i])
                 => ipc'[i] = "action"]_vars

\* a second invocation is in the domain action of a ticket, holding its Redis
\* lock, while the first one, which held it, is still in its own domain action
C32_Witness ==
    \E i, j \in Invs :
        /\ i < j
        /\ TicketOf(i) = TicketOf(j)
        /\ ipc[i] = "action" /\ ipc[j] = "action"
        /\ "redis_acquired" \in trace[i]
        /\ redis_lock[TicketOf(j)] = j
        /\ tickets[TicketOf(j)] = "0"

\* C33 (as claimed): every placement, with its placement comment on the ticket,
\* leaves the order tracked: after it the store holds a pending row for the
\* order id.
C33_PlacementNoteOnlyForTrackedOrder ==
    [][\A o \in Orders :
          addCount'[o] = addCount[o] + 1 => Pending(o)']_vars

\* C34 (as claimed): whatever the callers of start_tracking and stop_tracking
\* do, at most one thread is in _tracking_loop.
C34_AtMostOneTrackingLoop ==
    ~(tpc \notin {"none", "exited"} /\ tpc2 = "loop")

====
